---- MODULE Spec2Model ----
(***************************************************************************)
(* Extension lifecycle engine of the Azure Linux agent                     *)
(* (azurelinuxagent/distro/default/extension.py).                          *)
(*                                                                         *)
(* The model follows one extension name through reconciliation passes:     *)
(* the version directories under libDir are the durable state, one         *)
(* ExtensionInstance is built per setting, and every statement of          *)
(* handle()/upgrade() that touches the disk, the network or a child        *)
(* process is one step.                                                    *)
(***************************************************************************)
EXTENDS Integers, Sequences, FiniteSets, TLC

(***************************************************************************)
(* Bounds of the model.                                                    *)
(***************************************************************************)
\* sequence numbers of the settings documents are 0..MaxSeqNo
MaxSeqNo == 1
\* every versionUris entry lists MaxUris mirror URIs
MaxUris == 2
\* protocol.getExtensions() returns at most MaxSettings settings
MaxSettings == 2

(***************************************************************************)
(* Strings.  A version is a sequence of one-character strings; Python 2    *)
(* compares str values by code point, a proper prefix being smaller.       *)
(***************************************************************************)
Ord(c) ==
    CASE c = "-" -> 45
      [] c = "." -> 46
      [] c = "0" -> 48
      [] c = "1" -> 49
      [] c = "2" -> 50
      [] c = "3" -> 51
      [] c = "9" -> 57

RECURSIVE StrLess(_, _)
StrLess(a, b) ==
    IF b = <<>> THEN FALSE
    ELSE IF a = <<>> THEN TRUE
    ELSE IF Ord(Head(a)) < Ord(Head(b)) THEN TRUE
    ELSE IF Ord(Head(a)) > Ord(Head(b)) THEN FALSE
    ELSE StrLess(Tail(a), Tail(b))

StrGreater(a, b) == StrLess(b, a)

StartsWith(s, prefix) ==
    /\ Len(prefix) <= Len(s)
    /\ SubSeq(s, 1, Len(prefix)) = prefix

\* version.split('.')[0]
RECURSIVE SplitDotFirst(_)
SplitDotFirst(s) ==
    IF s = <<>> \/ Head(s) = "." THEN <<>>
    ELSE <<Head(s)>> \o SplitDotFirst(Tail(s))

\* str.lower() on the strings the engine lower-cases
Lower(s) ==
    CASE s = "Auto" -> "auto"
      [] s = "AUTO" -> "auto"
      [] s = "UpdateWithInstall" -> "updatewithinstall"
      [] s = "updateWithInstall" -> "updatewithinstall"
      [] s = "UpdateInPlace" -> "updateinplace"
      [] OTHER -> s

V10 == <<"1", ".", "0">>
V11 == <<"1", ".", "1">>
V20 == <<"2", ".", "0">>

\* the versions a setting names and a directory can carry
Versions == {V10, V11}

\* the versions the versionUris of a setting can list
ListedVersions == {V10, V11, V20}

\* order in which the control plane lists the versionUris entries
VersionList == <<V11, V20, V10>>

(***************************************************************************)
(* Module constants of extension.py                                        *)
(***************************************************************************)
ValidExtensionStatus == {"transitioning", "error", "success", "warning"}
ValidAggStatus == {"Installing", "Ready", "NotReady", "Unresponsive"}

HandlerStates == {"uninstalled", "installed", "disabled", "enabled"}

\* the table with the entry of disabled taken from uninstalled
HandlerStatusToAggStatusDisabledNotReady(handlerStatus) ==
    CASE handlerStatus = "uninstalled" -> "NotReady"
      [] handlerStatus = "installed" -> "Installing"
      [] handlerStatus = "disabled" -> "NotReady"
      [] handlerStatus = "enabled" -> "Ready"

HandlerStatusToAggStatus(handlerStatus) ==
    CASE handlerStatus = "uninstalled" -> "NotReady"
      [] handlerStatus = "installed" -> "Installing"
      [] handlerStatus = "disabled" -> "Ready"
      [] handlerStatus = "enabled" -> "Ready"

(***************************************************************************)
(* HandlerManifest.  data[0] of HandlerManifest.json is modelled by        *)
(*   rh  : handlerManifest.reportHeartbeat (FALSE also when absent)        *)
(*   um  : handlerManifest.updateMode, "" when the key is absent           *)
(*   top : whether data[0] itself has an "updateMode" key                  *)
(***************************************************************************)
Manifests ==
    { [rh |-> FALSE, um |-> "", top |-> FALSE],
      [rh |-> TRUE, um |-> "UpdateWithInstall", top |-> FALSE],
      [rh |-> FALSE, um |-> "UpdateWithInstall", top |-> TRUE] }

isReportHeartbeat(man) == man.rh

\* the comparison is made only when data[0] itself has an "updateMode" key
isUpdateWithInstall(man) ==
    IF man.um = "" THEN FALSE
    ELSE IF man.top THEN Lower(man.um) = "updatewithinstall"
    ELSE FALSE

(***************************************************************************)
(* Files the handler writes and the engine reads.                          *)
(*   status file    : [exists, json]; json is <<>> when the text is not    *)
(*                    JSON, else <<element 0>>                             *)
(*   heartbeat file : [exists, age, json]; age is now - st_mtime in        *)
(*                    seconds, json as above holding [0]['heartbeat']      *)
(* A JSON object is a record; a missing key is a missing field.            *)
(***************************************************************************)
ExtStatus(s) ==
    [status |-> [status |-> s, operation |-> "Enable", code |-> 0,
                 name |-> "Foo",
                 formattedMessage |-> [lang |-> "en-US", message |-> "ok"]]]

ExtStatusNoStatus == [version |-> "1.0"]

ExtStatusNoCode ==
    [status |-> [status |-> "success", operation |-> "Enable", name |-> "Foo",
                 formattedMessage |-> [lang |-> "en-US", message |-> "ok"]]]

ExtStatusNoMessage ==
    [status |-> [status |-> "success", operation |-> "Enable", code |-> 0,
                 name |-> "Foo", formattedMessage |-> [lang |-> "en-US"]]]

StatusFiles ==
    {[exists |-> FALSE, json |-> <<>>], [exists |-> TRUE, json |-> <<>>]}
    \cup {[exists |-> TRUE, json |-> <<ExtStatus(s)>>] :
              s \in ValidExtensionStatus \cup {"done"}}
    \cup {[exists |-> TRUE, json |-> <<e>>] :
              e \in {ExtStatusNoStatus, ExtStatusNoCode, ExtStatusNoMessage}}

GoodStatusFile == [exists |-> TRUE, json |-> <<ExtStatus("success")>>]

Heartbeats ==
    {[status |-> s, code |-> c, Message |-> "degraded"] :
         s \in ValidAggStatus \cup {"Busy"}, c \in {0, 42}}
    \cup {[code |-> 0, Message |-> "degraded"],
          [status |-> "Ready", Message |-> "degraded"],
          [status |-> "Ready", code |-> 0]}

Ages == {0, 599, 600, 601, 3600}

HeartbeatFiles ==
    {[exists |-> FALSE, age |-> 0, json |-> <<>>]}
    \cup {[exists |-> TRUE, age |-> a, json |-> <<>>] : a \in Ages}
    \cup {[exists |-> TRUE, age |-> a, json |-> <<h>>] :
              a \in Ages, h \in Heartbeats}

(***************************************************************************)
(* Results of operations that can raise: err is "" on normal return and    *)
(* the ExtensionError text otherwise; val holds the returned value.        *)
(***************************************************************************)
Ok(v) == [err |-> "", val |-> <<v>>]
Raised(msg) == [err |-> msg, val |-> <<>>]

getExtensionStatus(statusFile) ==
    IF ~statusFile.exists THEN Raised("Failed to get status file")
    ELSE IF statusFile.json = <<>> THEN Raised("Malformed status file")
    ELSE Ok(statusFile.json[1])

\* "" when the record passes every check, else the error text
validateExtensionStatus(extStatus) ==
    IF "status" \notin DOMAIN extStatus
        THEN "Malformed status file: missing 'status'"
    ELSE IF "status" \notin DOMAIN extStatus.status
        THEN "Malformed status file: missing 'status.status'"
    ELSE IF "operation" \notin DOMAIN extStatus.status
        THEN "Malformed status file: missing 'status.operation'"
    ELSE IF "code" \notin DOMAIN extStatus.status
        THEN "Malformed status file: missing 'status.code'"
    ELSE IF "name" \notin DOMAIN extStatus.status
        THEN "Malformed status file: missing 'status.name'"
    ELSE IF "formattedMessage" \notin DOMAIN extStatus.status
        THEN "Malformed status file: missing 'status.formattedMessage'"
    ELSE IF "lang" \notin DOMAIN extStatus.status.formattedMessage
        THEN "Malformed status file: missing 'status.formattedMessage.lang'"
    ELSE IF "message" \notin DOMAIN extStatus.status.formattedMessage
        THEN "Malformed status file: missing 'status.formattedMessage.message'"
    ELSE IF extStatus.status.status \notin ValidExtensionStatus
        THEN "Malformed status file: invalid 'status.status'"
    ELSE ""

\* the threshold of isResponsive, in seconds
HeartbeatLimit == 600

isResponsive(lastUpdate) == lastUpdate > HeartbeatLimit

UnresponsiveHeartbeat ==
    [status |-> "Unresponsive", code |-> -1,
     Message |-> "Extension heartbeat is not responsive"]

getHeartbeat(heartbeatFile) ==
    IF ~heartbeatFile.exists THEN Raised("Failed to get heart beat file")
    ELSE IF ~isResponsive(heartbeatFile.age) THEN Ok(UnresponsiveHeartbeat)
    ELSE IF heartbeatFile.json = <<>> THEN Raised("Malformed heartbeat file")
    ELSE Ok(heartbeatFile.json[1])

validateHeartbeat(heartbeat) ==
    IF "status" \notin DOMAIN heartbeat
        THEN "Malformed heartbeat file: missing 'status'"
    ELSE IF "code" \notin DOMAIN heartbeat
        THEN "Malformed heartbeat file: missing 'code'"
    ELSE IF "Message" \notin DOMAIN heartbeat
        THEN "Malformed heartbeat file: missing 'Message'"
    ELSE ""

validateAggStatus(aggStatus) ==
    IF aggStatus \notin ValidAggStatus THEN "Invalid aggretated status" ELSE ""

\* heartbeat is <<>> for None, else <<the heartbeat record>>; the keys code
\* and Message of the result are present iff top is not empty
createAggStatus(s, aggStatus, extStatus, heartbeat) ==
    [handlerVersion |-> s.version,
     handlerName |-> s.name,
     status |-> aggStatus,
     settingsStatus |-> extStatus,
     sequenceNumber |-> s.seqNo,
     top |-> IF heartbeat = <<>> THEN <<>>
             ELSE <<[code |-> heartbeat[1].code,
                     Message |-> heartbeat[1].Message]>>]

\* hs and man are the contents of config/HandlerState and of
\* HandlerManifest.json in the instance's base directory (<<>>: no file)
getAggStatus(s, hs, man, statusFile, heartbeatFile) ==
    LET es == getExtensionStatus(statusFile) IN
    IF es.err # "" THEN Raised(es.err)
    ELSE LET extStatus == es.val[1]
             v1 == validateExtensionStatus(extStatus) IN
    IF v1 # "" THEN Raised(v1)
    ELSE IF hs = <<>> THEN Raised("Failed to get handler status")
    ELSE IF man = <<>> THEN Raised("Failed to load manifest file.")
    ELSE LET base == HandlerStatusToAggStatus(hs[1]) IN
    IF ~isReportHeartbeat(man[1])
    THEN IF validateAggStatus(base) # "" THEN Raised(validateAggStatus(base))
         ELSE Ok(createAggStatus(s, base, extStatus, <<>>))
    ELSE LET hb == getHeartbeat(heartbeatFile) IN
    IF hb.err # "" THEN Raised(hb.err)
    ELSE LET v2 == validateHeartbeat(hb.val[1]) IN
    IF v2 # "" THEN Raised(v2)
    ELSE LET aggStatus == hb.val[1].status IN
    IF validateAggStatus(aggStatus) # "" THEN Raised(validateAggStatus(aggStatus))
    ELSE Ok(createAggStatus(s, aggStatus, extStatus, hb.val))

(***************************************************************************)
(* Extension settings (the goal state delivered by the protocol).          *)
(*   upgradePolicy : <<>> for None, else <<the string>>                    *)
(*   versionUris   : sequence of [version, uris]                           *)
(* A URI is [v, k]: mirror k of the package of version v.                  *)
(***************************************************************************)
Uri(v, k) == [v |-> v, k |-> k]

UrisOf(v) == [k \in 1..MaxUris |-> Uri(v, k)]

\* the entries of the versions in S, in the order of VersionList
VersionUris(S) ==
    LET keep(v) == v \in S
        picked == SelectSeq(VersionList, keep)
    IN [i \in 1..Len(picked) |-> [version |-> picked[i], uris |-> UrisOf(picked[i])]]

\* the sets of versions a setting's versionUris may list
ListedSets == {{}, {V10}, {V11, V20}, ListedVersions}

GoalStates == {"enabled", "disabled", "uninstall", "reboot"}

\* (getTargetVersion is followed through more spellings under SpecTarget)
UpgradePolicies == {<<>>, <<"Auto">>}

Settings ==
    [name : {"Foo"},
     version : Versions,
     seqNo : 0..MaxSeqNo,
     state : GoalStates,
     upgradePolicy : UpgradePolicies,
     versionUris : {VersionUris(S) : S \in ListedSets}]

\* sorted(versionUris, key=version, reverse=True): insertion into a
\* descending sequence, equal keys keeping their order
RECURSIVE InsertDesc(_, _)
InsertDesc(x, sorted) ==
    IF sorted = <<>> THEN <<x>>
    ELSE IF StrGreater(x.version, Head(sorted).version)
         THEN <<x>> \o sorted
         ELSE <<Head(sorted)>> \o InsertDesc(x, Tail(sorted))

RECURSIVE SortDesc(_)
SortDesc(xs) ==
    IF xs = <<>> THEN <<>>
    ELSE InsertDesc(xs[Len(xs)], SortDesc(SubSeq(xs, 1, Len(xs) - 1)))

\* getTargetVersion without the filter on the major version
getTargetVersionAnyMajor(s) ==
    IF s.upgradePolicy = <<>> \/ Lower(s.upgradePolicy[1]) # "auto"
    THEN Ok(s.version)
    ELSE LET versionUris == SortDesc(s.versionUris)
         IN IF Len(versionUris) <= 0 THEN Raised("Can't find version")
            ELSE Ok(versionUris[1].version)

getTargetVersion(s) ==
    IF s.upgradePolicy = <<>> \/ Lower(s.upgradePolicy[1]) # "auto"
    THEN Ok(s.version)
    ELSE LET major == SplitDotFirst(s.version)
             match(x) == StartsWith(x.version, major \o <<".">>)
             versionUris == SortDesc(SelectSeq(s.versionUris, match))
         IN IF Len(versionUris) <= 0 THEN Raised("Can't find version")
            ELSE Ok(versionUris[1].version)

\* looks the entry up by setting.getVersion()
RECURSIVE getPackageUrisFrom(_, _)
getPackageUrisFrom(version, versionUris) ==
    IF versionUris = <<>> THEN Raised("Can't get package uris")
    ELSE IF Head(versionUris).version = version THEN Ok(Head(versionUris).uris)
    ELSE getPackageUrisFrom(version, Tail(versionUris))

getPackageUris(s) == getPackageUrisFrom(s.version, s.versionUris)

(***************************************************************************)
(* State.                                                                  *)
(*   dirs          : per version, the directory <libDir>/Foo-<version>     *)
(*   pc            : where process()/processExtension stands               *)
(*   remaining     : the settings of extSettings the for loop of process()*)
(*                   has not finished with                                 *)
(*   setting       : the setting being processed                           *)
(*   ext, new      : the pass's ExtensionInstance and, in an upgrade, the  *)
(*                   instance of the target version                        *)
(*   todo          : the statements of handle()/upgrade() still to run     *)
(*   child         : the handler process launched and not yet reaped       *)
(*   trace         : what this processExtension did so far: every HTTP     *)
(*                   GET, every file it wrote, every child it started,     *)
(*                   killed or reaped, every event it emitted.  The files  *)
(*                   config/<seqNo>.settings are write-only for the        *)
(*                   engine, so they appear here as "settings" events and  *)
(*                   not in dirs                                          *)
(*   aggIn, agg    : the files getAggStatus read, and the aggregate        *)
(*   installedOk   : history: the versions whose install or update command *)
(*                   exited 0 in this or an earlier pass                   *)
(***************************************************************************)
VARIABLES dirs, pc, remaining, setting, ext, new, todo, child, trace,
          aggIn, agg, installedOk

vars == <<dirs, pc, remaining, setting, ext, new, todo, child, trace,
          aggIn, agg, installedOk>>

\* base directory contents:
\*   exists : the directory exists
\*   found  : the HandlerManifest.json SearchForFile locates under it
\*   man    : the canonical <baseDir>/HandlerManifest.json
\*   config : config/ and status/ exist
\*   hs     : config/HandlerState
\*   env    : HandlerEnvironment.json exists
NoDir ==
    [exists |-> FALSE, found |-> <<>>, man |-> <<>>, config |-> FALSE,
     hs |-> <<>>, env |-> FALSE]

\* the packages the mirrors serve: each holds a manifest below its root
Packages == {<<m>> : m \in Manifests}

\* the bodies HttpGet returns: a zip archive of a package, or bytes that are
\* no zip archive
Bodies ==
    [zip : {TRUE}, found : Packages] \cup {[zip |-> FALSE, found |-> <<>>]}

NoSetting ==
    [name |-> "Foo", version |-> V10, seqNo |-> 0, state |-> "disabled",
     upgradePolicy |-> <<>>, versionUris |-> <<>>]

ExtensionInstance(currVersion, installed) ==
    [currVersion |-> currVersion, installed |-> installed, enabled |-> FALSE,
     currOperation |-> ""]

NoInstance == ExtensionInstance(<<>>, FALSE)

NoChild == [cmd |-> "", who |-> "", exits |-> TRUE]

NoAgg == [err |-> "", val |-> <<>>]

NoAggIn ==
    [used |-> FALSE, hs |-> <<>>, man |-> <<>>,
     statusFile |-> [exists |-> FALSE, json |-> <<>>],
     heartbeatFile |-> [exists |-> FALSE, age |-> 0, json |-> <<>>]]

Event(ev, cmd, v, u, n) == [ev |-> ev, cmd |-> cmd, v |-> v, u |-> u, n |-> n]

Init ==
    /\ dirs = [v \in Versions |-> NoDir]
    /\ pc = "idle"
    /\ remaining = 0
    /\ setting = NoSetting
    /\ ext = NoInstance
    /\ new = NoInstance
    /\ todo = <<>>
    /\ child = NoChild
    /\ trace = <<>>
    /\ aggIn = NoAggIn
    /\ agg = NoAgg
    /\ installedOk = {}

(***************************************************************************)
(* Installed-instance discovery and the decisions of handle().             *)
(***************************************************************************)
\* the characters of an extension name
Chars(name) == CASE name = "Foo" -> <<"F", "o", "o">>

\* getFullName(): <name>-<currVersion>
getFullName(name, v) == Chars(name) \o <<"-">> \o v

\* directories of libDir that are not version directories of Foo: "Food",
\* and version 1.0 of an extension named Food
Food == <<"F", "o", "o", "d">>
Food10 == <<"F", "o", "o", "d", "-", "1", ".", "0">>

OtherDirs == {{}, {Food}, {Food10}}

\* os.listdir(libDir), restricted to directories
ListDir(others) ==
    {getFullName("Foo", v) : v \in {w \in Versions : dirs[w].exists}}
    \cup others

\* dirName.rfind('-') splits the name from the version
ParseExtensionDirName(dirName) ==
    LET seps == {k \in 1..Len(dirName) : dirName[k] = "-"} IN
    IF seps = {} THEN Raised("Invalid extenation dir name")
    ELSE LET seprator == CHOOSE k \in seps : \A j \in seps : j <= k
         IN Ok(<<SubSeq(dirName, 1, seprator - 1),
                 SubSeq(dirName, seprator + 1, Len(dirName))>>)

\* name is setting.getName(): the highest version directory of the name as
\* an installed instance,
\* <<>> (None) when there is none; every directory whose name starts with
\* the target name is parsed, so one of them without '-' raises
LoadExtensionInstance(name, listing) ==
    LET targetName == Chars(name)
        started == {d \in listing : StartsWith(d, targetName)}
    IN IF \E d \in started : ParseExtensionDirName(d).err # ""
       THEN Raised("Invalid extenation dir name")
       ELSE LET installedVersions ==
                    {ParseExtensionDirName(d).val[1][2] :
                        d \in {c \in started :
                                 ParseExtensionDirName(c).val[1][1] = targetName}}
            IN IF installedVersions = {} THEN Ok(<<>>)
               ELSE Ok(<<ExtensionInstance(
                            CHOOSE v \in installedVersions :
                                \A w \in installedVersions : ~StrLess(v, w),
                            TRUE)>>)

Step(op, who) == [op |-> op, who |-> who]

Plan(err, e, n, steps) == [err |-> err, ext |-> e, new |-> n, todo |-> steps]

\* upgrade(): the statements after currOperation is set and new is built
UpgradeSteps ==
    << Step("download", "new"), Step("initExtensionDir", "new"),
       Step("disable", "self"), Step("update", "new"),
       Step("uninstall", "self"), Step("loadManifest", "new"),
       Step("enable", "new"), Step("upgradeEvent", "self") >>

\* new = ExtensionInstance(self.setting, targetVersion, self.libDir): the
\* third positional argument is installed, and libDir is a truthy string
upgrade(e, targetVersion) ==
    Plan("", [e EXCEPT !.currOperation = "Upgrade"],
         ExtensionInstance(targetVersion, TRUE), UpgradeSteps)

\* handleEnable without the downgrade branch: an older target is enabled
handleEnableAllowDowngrade(s, e) ==
    LET tv == getTargetVersion(s) IN
    IF tv.err # "" THEN Plan(tv.err, e, NoInstance, <<>>)
    ELSE LET targetVersion == tv.val[1] IN
    IF e.installed
    THEN IF StrGreater(targetVersion, e.currVersion)
             THEN upgrade(e, targetVersion)
         ELSE Plan("", e, NoInstance, <<Step("enable", "self")>>)
    ELSE Plan("",
              IF StrGreater(targetVersion, s.version)
                  THEN [e EXCEPT !.currVersion = targetVersion] ELSE e,
              NoInstance,
              << Step("download", "self"), Step("initExtensionDir", "self"),
                 Step("install", "self"), Step("enable", "self") >>)

\* handleEnable enabling a fresh instance before installing it
handleEnableBeforeInstall(s, e) ==
    LET tv == getTargetVersion(s) IN
    IF tv.err # "" THEN Plan(tv.err, e, NoInstance, <<>>)
    ELSE LET targetVersion == tv.val[1] IN
    IF e.installed
    THEN IF StrGreater(targetVersion, e.currVersion)
             THEN upgrade(e, targetVersion)
         ELSE IF targetVersion = e.currVersion
             THEN Plan("", e, NoInstance, <<Step("enable", "self")>>)
         ELSE Plan("A newer version has already been installed", e,
                   NoInstance, <<>>)
    ELSE Plan("",
              IF StrGreater(targetVersion, s.version)
                  THEN [e EXCEPT !.currVersion = targetVersion] ELSE e,
              NoInstance,
              << Step("download", "self"), Step("initExtensionDir", "self"),
                 Step("enable", "self"), Step("install", "self") >>)

\* handleEnable installing again a version that is already installed
handleEnableReinstall(s, e) ==
    LET tv == getTargetVersion(s) IN
    IF tv.err # "" THEN Plan(tv.err, e, NoInstance, <<>>)
    ELSE LET targetVersion == tv.val[1] IN
    IF e.installed
    THEN IF StrGreater(targetVersion, e.currVersion)
             THEN upgrade(e, targetVersion)
         ELSE IF targetVersion = e.currVersion
             THEN Plan("", e, NoInstance,
                       <<Step("install", "self"), Step("enable", "self")>>)
         ELSE Plan("A newer version has already been installed", e,
                   NoInstance, <<>>)
    ELSE Plan("",
              IF StrGreater(targetVersion, s.version)
                  THEN [e EXCEPT !.currVersion = targetVersion] ELSE e,
              NoInstance,
              << Step("download", "self"), Step("initExtensionDir", "self"),
                 Step("install", "self"), Step("enable", "self") >>)

handleEnable(s, e) ==
    LET tv == getTargetVersion(s) IN
    IF tv.err # "" THEN Plan(tv.err, e, NoInstance, <<>>)
    ELSE LET targetVersion == tv.val[1] IN
    IF e.installed
    THEN IF StrGreater(targetVersion, e.currVersion)
             THEN upgrade(e, targetVersion)
         ELSE IF targetVersion = e.currVersion
             THEN Plan("", e, NoInstance, <<Step("enable", "self")>>)
         ELSE Plan("A newer version has already been installed", e,
                   NoInstance, <<>>)
    ELSE Plan("",
              IF StrGreater(targetVersion, s.version)
                  THEN [e EXCEPT !.currVersion = targetVersion] ELSE e,
              NoInstance,
              << Step("download", "self"), Step("initExtensionDir", "self"),
                 Step("install", "self"), Step("enable", "self") >>)

\* handleDisable without the test of self.enabled
handleDisableNotEnabled(e) ==
    IF ~e.installed THEN <<>> ELSE <<Step("disable", "self")>>

handleDisable(e) ==
    IF ~e.installed \/ ~e.enabled THEN <<>> ELSE <<Step("disable", "self")>>

\* handleUninstall skipping an instance that is not enabled
handleUninstallOnlyEnabled(e) ==
    IF ~e.installed \/ ~e.enabled THEN <<>> ELSE <<Step("uninstall", "self")>>

handleUninstall(e) ==
    IF ~e.installed THEN <<>> ELSE <<Step("uninstall", "self")>>

\* handle(): reads HandlerState of an installed instance, then dispatches
\* on the goal state
handle(s, e0) ==
    IF e0.installed /\ dirs[e0.currVersion].hs = <<>>
    THEN Plan("Failed to get handler status", e0, NoInstance, <<>>)
    ELSE LET e == IF e0.installed
                  THEN [e0 EXCEPT !.enabled =
                            (dirs[e0.currVersion].hs[1] = "enabled")]
                  ELSE e0 IN
    IF s.state = "enabled" THEN handleEnable(s, e)
    ELSE IF s.state = "disabled"
        THEN Plan("", e, NoInstance, handleDisable(e))
    ELSE IF s.state = "uninstall"
        THEN Plan("", e, NoInstance, handleDisable(e) \o handleUninstall(e))
    ELSE Plan("Unknown extension state", e, NoInstance, <<>>)

(***************************************************************************)
(* processExtension's except clause: the NotReady aggregate and the        *)
(* failure event, both naming ext.getCurrOperation().                      *)
(***************************************************************************)
ErrorStatus(op, msg) ==
    [status |-> "error", operation |-> op, code |-> -1,
     formattedMessage |-> [lang |-> "en-US", message |-> msg]]

Fail(s, msg, e, tr) ==
    /\ pc' = "report"
    /\ agg' = [err |-> msg,
               val |-> <<createAggStatus(s, "NotReady",
                                         ErrorStatus(e.currOperation, msg),
                                         <<>>)>>]
    /\ trace' = Append(tr, Event("event", e.currOperation, e.currVersion,
                                 e.currVersion, 0))
    /\ ext' = e
    /\ todo' = <<>>
    /\ child' = NoChild

\* an exception raised outside the try of processExtension, or one that is
\* not an ExtensionError, leaves processExtension and the loop of process()
Escape(e, tr) ==
    /\ pc' = "crashed"
    /\ trace' = tr
    /\ ext' = e
    /\ todo' = <<>>
    /\ child' = NoChild
    /\ agg' = NoAgg

\* process(): extSettings = protocol.getExtensions()
Process ==
    /\ pc = "idle"
    /\ pc' = "loop"
    /\ remaining' \in 0..MaxSettings
    /\ UNCHANGED <<dirs, setting, ext, new, todo, child, trace, aggIn, agg>>
    /\ UNCHANGED installedOk

\* processExtension up to the first statement of handle() that acts
ProcessExtension ==
    /\ pc = "loop"
    /\ remaining > 0
    /\ \E loaded \in {LoadExtensionInstance("Foo", ListDir(others)) :
                          others \in OtherDirs},
            s \in Settings :
         /\ setting' = s
         /\ IF loaded.err # ""
            THEN /\ Escape(NoInstance, <<>>)
                 /\ new' = NoInstance
            ELSE LET e0 == IF loaded.val[1] = <<>>
                           THEN ExtensionInstance(s.version, FALSE)
                           ELSE loaded.val[1][1]
                     plan == handle(s, e0)
                 IN /\ new' = plan.new
                    /\ IF plan.err # ""
                       THEN Fail(s, plan.err, plan.ext, <<>>)
                       ELSE /\ pc' = "run"
                            /\ ext' = plan.ext
                            /\ todo' = plan.todo
                            /\ trace' = <<>>
                            /\ UNCHANGED <<child, agg>>
    /\ UNCHANGED <<dirs, remaining, aggIn>>
    /\ UNCHANGED installedOk

(***************************************************************************)
(* The statements of handle() and upgrade().                               *)
(***************************************************************************)
Running(ops) == pc = "run" /\ todo # <<>> /\ Head(todo).op \in ops

Inst(who) == IF who = "self" THEN ext ELSE new

\* the instance who becomes i; the pass's ext after that
ExtAfter(who, i) == IF who = "self" THEN i ELSE ext
NewAfter(who, i) == IF who = "self" THEN new ELSE i

\* the loop without its break: every URI is fetched, the last body wins
RECURSIVE HttpLoopNoBreak(_, _, _, _)
HttpLoopNoBreak(uris, resp, i, tried) ==
    IF i > Len(uris)
    THEN [tried |-> tried,
          got |-> IF \E j \in 1..Len(uris) : resp[j]
                  THEN CHOOSE j \in 1..Len(uris) :
                           resp[j] /\ \A k \in (j + 1)..Len(uris) : ~resp[k]
                  ELSE 0]
    ELSE HttpLoopNoBreak(uris, resp, i + 1, Append(tried, i))

\* the for loop of download(): resp[i] tells whether HttpGet(uris[i])
\* returns; tried lists the indices attempted, got is the index whose body
\* became the package (0: package is None)
RECURSIVE HttpLoop(_, _, _, _)
HttpLoop(uris, resp, i, tried) ==
    IF i > Len(uris) THEN [tried |-> tried, got |-> 0]
    ELSE IF resp[i] THEN [tried |-> Append(tried, i), got |-> i]
    ELSE HttpLoop(uris, resp, i + 1, Append(tried, i))

GetEvents(uris, loop, v) ==
    [j \in 1..Len(loop.tried) |->
        Event("get", IF loop.tried[j] = loop.got THEN "ok" ELSE "fail", v,
              uris[loop.tried[j]].v, uris[loop.tried[j]].k)]

Download ==
    /\ Running({"download"})
    /\ LET who == Head(todo).who
           i == [Inst(who) EXCEPT !.currOperation = "Download"]
           v == i.currVersion
           pu == getPackageUris(setting)
       IN
       /\ new' = NewAfter(who, i)
       /\ IF pu.err # ""
          THEN /\ Fail(setting, pu.err, ExtAfter(who, i), trace)
               /\ UNCHANGED dirs
          ELSE \E resp \in [1..Len(pu.val[1]) -> BOOLEAN], body \in Bodies :
                 LET uris == pu.val[1]
                     loop == HttpLoop(uris, resp, 1, <<>>)
                     gets == trace \o GetEvents(uris, loop, v)
                     \* SetFileContents(packageFile, bytearray(package))
                     saved == Append(gets,
                                  Event("package", "", v, uris[loop.got].v,
                                        uris[loop.got].k))
                 IN IF loop.got = 0
                    THEN /\ Fail(setting, "Download extension failed",
                                 ExtAfter(who, i), gets)
                         /\ UNCHANGED dirs
                    ELSE IF ~body.zip
                    \* zipfile.ZipFile(packageFile) raises BadZipfile
                    THEN /\ Escape(ExtAfter(who, i), saved)
                         /\ UNCHANGED dirs
                    ELSE /\ dirs' = [dirs EXCEPT ![v] =
                                 [@ EXCEPT !.exists = TRUE,
                                           !.found = body.found]]
                         /\ trace' = saved \o
                              << Event("unpack", "", v, uris[loop.got].v,
                                       uris[loop.got].k),
                                 Event("event", "Download", v, v, 1) >>
                         /\ ext' = ExtAfter(who, i)
                         /\ todo' = Tail(todo)
                         /\ UNCHANGED <<pc, child, agg>>
    /\ UNCHANGED <<remaining, setting, aggIn>>
    /\ UNCHANGED installedOk

InitExtensionDir ==
    /\ Running({"initExtensionDir"})
    /\ LET v == Inst(Head(todo).who).currVersion IN
       /\ dirs' = [dirs EXCEPT ![v] =
                     [@ EXCEPT !.man = dirs[v].found, !.config = TRUE,
                               !.hs = <<"uninstalled">>, !.env = TRUE]]
       /\ trace' = Append(trace, Event("state", "uninstalled", v, v, 0))
    /\ todo' = Tail(todo)
    /\ UNCHANGED <<pc, remaining, setting, ext, new, child, aggIn, agg>>
    /\ UNCHANGED installedOk

(***************************************************************************)
(* Transitions: enable, disable, install, uninstall, update.               *)
(***************************************************************************)
Commands == {"install", "enable", "disable", "uninstall", "update"}

\* WALAEventOperation of each transition
Operation(cmd) ==
    CASE cmd = "install" -> "Install"
      [] cmd = "enable" -> "Enable"
      [] cmd = "disable" -> "Disable"
      [] cmd = "uninstall" -> "UnInstall"
      [] cmd = "update" -> "Update"

\* disable persisting the state of uninstall
StatusAfterDisableUninstalled(cmd) ==
    CASE cmd = "install" -> <<"installed">>
      [] cmd = "enable" -> <<"enabled">>
      [] cmd = "disable" -> <<"uninstalled">>
      [] cmd = "uninstall" -> <<"uninstalled">>
      [] cmd = "update" -> <<>>

\* what the transition passes to setHandlerStatus; <<>> for update
StatusAfter(cmd) ==
    CASE cmd = "install" -> <<"installed">>
      [] cmd = "enable" -> <<"enabled">>
      [] cmd = "disable" -> <<"disabled">>
      [] cmd = "uninstall" -> <<"uninstalled">>
      [] cmd = "update" -> <<>>

DefaultTimeout == 300
LongTimeout == 900
PollInterval == 5

Timeout(cmd) ==
    IF cmd \in {"disable", "install", "update"} THEN LongTimeout
    ELSE DefaultTimeout

\* "child.poll == None": the bound method object is compared, not its result
PollIsNone(c) == FALSE

\* retry = timeout / 5; while retry > 0 and child.poll == None: retry -= 1
RECURSIVE PollLoop(_, _)
PollLoop(retry, c) ==
    IF retry > 0 /\ PollIsNone(c) THEN PollLoop(retry - 1, c) ELSE retry

\* launchCommand without the call of updateSetting
updateSettingSkipped(i) == <<>>

\* updateSetting(): the write of config/<seqNo>.settings of instance i
updateSetting(i) ==
    <<Event("settings", "", i.currVersion, i.currVersion, setting.seqNo)>>

\* the head of a transition up to and including the poll loop of
\* launchCommand; started tells whether Popen returned, exits whether the
\* child ever exits by itself
LaunchCommand ==
    /\ Running(Commands)
    /\ LET who == Head(todo).who
           cmd == Head(todo).op
           i == [Inst(who) EXCEPT !.currOperation = Operation(cmd)]
           v == i.currVersion
           e == ExtAfter(who, i)
       IN
       /\ new' = NewAfter(who, i)
       /\ IF dirs[v].man = <<>>
          THEN Fail(setting, "Failed to load manifest file.", e, trace)
          ELSE \E started \in BOOLEAN, exits \in BOOLEAN :
                    LET c == [cmd |-> cmd, who |-> who, exits |-> exits]
                        written == trace \o updateSetting(i)
                        launched == Append(written,
                            Event("launch", cmd, v, v, setting.seqNo))
                    IN IF ~started
                       THEN Fail(setting, "Failed to launch", e, written)
                       ELSE IF PollLoop(Timeout(cmd) \div PollInterval, c) = 0
                       THEN Fail(setting, "Timeout", e,
                                 Append(launched, Event("kill", cmd, v, v, 9)))
                       ELSE /\ pc' = "wait"
                            /\ child' = c
                            /\ trace' = launched
                            /\ ext' = e
                            /\ UNCHANGED <<todo, agg>>
    /\ UNCHANGED <<dirs, remaining, setting, aggIn>>
    /\ UNCHANGED installedOk

\* child.wait() returns ret; on 0 the transition persists its state and
\* emits its success event
ChildExit ==
    /\ pc = "wait"
    /\ child.exits
    /\ \E ret \in {0, 1} :
         LET i == Inst(child.who)
             v == i.currVersion
             cmd == child.cmd
             exited == Append(trace, Event("exit", cmd, v, v, ret))
         IN IF ret # 0
            THEN /\ Fail(setting, "Non-zero exit code", ext, exited)
                 /\ UNCHANGED <<dirs, installedOk>>
            ELSE /\ dirs' = IF StatusAfter(cmd) = <<>> THEN dirs
                            ELSE [dirs EXCEPT ![v].hs = StatusAfter(cmd)]
                 /\ trace' = exited \o
                      (IF StatusAfter(cmd) = <<>> THEN <<>>
                       ELSE <<Event("state", StatusAfter(cmd)[1], v, v, 0)>>)
                      \o <<Event("event", Operation(cmd), v, v, 1)>>
                 /\ pc' = "run"
                 /\ todo' = Tail(todo)
                 /\ child' = NoChild
                 /\ installedOk' = IF cmd \in {"install", "update"}
                                   THEN installedOk \cup {v}
                                   ELSE installedOk
                 /\ UNCHANGED <<ext, agg>>
    /\ UNCHANGED <<remaining, setting, new, aggIn>>

\* upgrade(): man = new.loadManifest(); if man.isUpdateWithInstall():
\* new.install()
UpgradeLoadManifest ==
    /\ Running({"loadManifest"})
    /\ LET v == new.currVersion IN
       IF dirs[v].man = <<>>
       THEN Fail(setting, "Failed to load manifest file.", ext, trace)
       ELSE /\ todo' = (IF isUpdateWithInstall(dirs[v].man[1])
                        THEN <<Step("install", "new")>> ELSE <<>>)
                       \o Tail(todo)
            /\ UNCHANGED <<pc, ext, child, trace, agg>>
    /\ UNCHANGED <<dirs, remaining, setting, new, aggIn>>
    /\ UNCHANGED installedOk

\* upgrade(): the closing AddExtensionEvent
UpgradeEvent ==
    /\ Running({"upgradeEvent"})
    /\ trace' = Append(trace, Event("event", "Upgrade", ext.currVersion,
                                    new.currVersion, 1))
    /\ todo' = Tail(todo)
    /\ UNCHANGED <<dirs, pc, remaining, setting, ext, new, child, aggIn,
                   agg>>
    /\ UNCHANGED installedOk

(***************************************************************************)
(* getAggStatus() after handle() returned, and reportExtensionStatus.      *)
(***************************************************************************)
\* the status and heartbeat files a pass may find
PassStatusFiles ==
    {[exists |-> FALSE, json |-> <<>>], GoodStatusFile}

PassHeartbeatFiles ==
    {[exists |-> FALSE, age |-> 0, json |-> <<>>],
     [exists |-> TRUE, age |-> 0,
      json |-> <<[status |-> "NotReady", code |-> 42, Message |-> "degraded"]>>],
     [exists |-> TRUE, age |-> 3600,
      json |-> <<[status |-> "Ready", code |-> 0, Message |-> "degraded"]>>],
     [exists |-> TRUE, age |-> 0,
      json |-> <<[status |-> "Busy", code |-> 0, Message |-> "degraded"]>>],
     [exists |-> TRUE, age |-> 3600,
      json |-> <<[status |-> "Busy", code |-> 0, Message |-> "degraded"]>>]}

GetAggStatus ==
    /\ pc = "run"
    /\ todo = <<>>
    /\ LET d == dirs[ext.currVersion] IN
       \E sf \in PassStatusFiles, hf \in PassHeartbeatFiles :
         \* files live in the base directory; only a handler that reports
         \* heartbeat writes heartbeat.log
         /\ sf.exists => d.config
         /\ hf.exists => d.exists /\ d.man # <<>> /\ d.man[1].rh
         /\ aggIn' = [used |-> TRUE, hs |-> d.hs, man |-> d.man,
                      statusFile |-> sf, heartbeatFile |-> hf]
         /\ LET r == getAggStatus(setting, d.hs, d.man, sf, hf) IN
            IF r.err # ""
            THEN Fail(setting, r.err, ext, trace)
            ELSE /\ agg' = r
                 /\ pc' = "report"
                 /\ UNCHANGED <<ext, todo, child, trace>>
    /\ UNCHANGED <<dirs, remaining, setting, new>>
    /\ UNCHANGED installedOk

\* protocol.reportExtensionStatus(name, version, aggStatus); the instances
\* of the pass are dropped and the loop of process() goes on
ReportStatus ==
    /\ pc = "report"
    /\ pc' = "loop"
    /\ remaining' = remaining - 1
    /\ setting' = NoSetting
    /\ ext' = NoInstance
    /\ new' = NoInstance
    /\ todo' = <<>>
    /\ child' = NoChild
    /\ trace' = <<>>
    /\ aggIn' = NoAggIn
    /\ agg' = NoAgg
    /\ UNCHANGED dirs
    /\ UNCHANGED installedOk

\* process() returns when the loop is through
Return ==
    /\ pc = "loop"
    /\ remaining = 0
    /\ pc' = "idle"
    /\ UNCHANGED <<dirs, remaining, setting, ext, new, todo, child, trace,
                   aggIn, agg>>
    /\ UNCHANGED installedOk

Next ==
    \/ Process
    \/ ProcessExtension
    \/ Download
    \/ InitExtensionDir
    \/ LaunchCommand
    \/ ChildExit
    \/ UpgradeLoadManifest
    \/ UpgradeEvent
    \/ GetAggStatus
    \/ ReportStatus
    \/ Return

Spec == Init /\ [][Next]_vars

(***************************************************************************)
(* getAggStatus on its own: every combination of handler state, manifest,  *)
(* status file and heartbeat file.                                         *)
(***************************************************************************)
AggSettings ==
    {s \in Settings :
        s.state = "enabled" /\ s.upgradePolicy = <<>> /\ s.versionUris = <<>>}

AggInputs ==
    [used : {FALSE},
     hs : {<<>>} \cup {<<h>> : h \in HandlerStates},
     man : {<<>>} \cup {<<m>> : m \in Manifests},
     statusFile : StatusFiles,
     heartbeatFile : HeartbeatFiles]

InitAgg ==
    /\ dirs = [v \in Versions |-> NoDir]
    /\ pc = "getAggStatus"
    /\ remaining = 0
    /\ setting \in AggSettings
    /\ ext = ExtensionInstance(setting.version, TRUE)
    /\ new = NoInstance
    /\ todo = <<>>
    /\ child = NoChild
    /\ trace = <<>>
    /\ aggIn \in AggInputs
    /\ agg = NoAgg
    /\ installedOk = {}

ApplyGetAggStatus ==
    /\ pc = "getAggStatus"
    /\ pc' = "returned"
    /\ agg' = getAggStatus(setting, aggIn.hs, aggIn.man, aggIn.statusFile,
                           aggIn.heartbeatFile)
    /\ aggIn' = [aggIn EXCEPT !.used = TRUE]
    /\ UNCHANGED <<dirs, remaining, setting, ext, new, todo, child, trace>>
    /\ UNCHANGED installedOk

SpecAgg == InitAgg /\ [][ApplyGetAggStatus]_vars

(***************************************************************************)
(* getTargetVersion on its own: goal versions of two majors, upgrade       *)
(* policies in several spellings, and versionUris lists of distinct        *)
(* versions in every order, one of them ("10.0") sharing a first character *)
(* with major 1 without being of that major.                               *)
(***************************************************************************)
\* versionUris lists have at most MaxListed entries
MaxListed == 3

V100 == <<"1", "0", ".", "0">>

TargetVersions == {V10, V11, V20, V100}

TargetLists ==
    {l \in UNION {[1..n -> TargetVersions] : n \in 0..MaxListed} :
        \A i, j \in 1..Len(l) : i # j => l[i] # l[j]}

TargetPolicies == {<<>>, <<"auto">>, <<"Auto">>, <<"AUTO">>, <<"manual">>}

TargetSettings ==
    [name : {"Foo"},
     version : {V10, V20},
     seqNo : {0},
     state : {"enabled"},
     upgradePolicy : TargetPolicies,
     versionUris :
        {[i \in 1..Len(l) |-> [version |-> l[i], uris |-> UrisOf(l[i])]] :
            l \in TargetLists}]

InitTarget ==
    /\ dirs = [v \in Versions |-> NoDir]
    /\ pc = "getTargetVersion"
    /\ remaining = 0
    /\ setting \in TargetSettings
    /\ ext = ExtensionInstance(setting.version, FALSE)
    /\ new = NoInstance
    /\ todo = <<>>
    /\ child = NoChild
    /\ trace = <<>>
    /\ aggIn = NoAggIn
    /\ agg = NoAgg
    /\ installedOk = {}

\* targetVersion = self.getTargetVersion(): agg holds what the call
\* returned or raised
ApplyGetTargetVersion ==
    /\ pc = "getTargetVersion"
    /\ pc' = "returned"
    /\ agg' = getTargetVersion(setting)
    /\ UNCHANGED <<dirs, remaining, setting, ext, new, todo, child, trace,
                   aggIn>>
    /\ UNCHANGED installedOk

SpecTarget == InitTarget /\ [][ApplyGetTargetVersion]_vars

(***************************************************************************)
(* Properties.                                                             *)
(***************************************************************************)
\* the events of kind ev in the trace, in order
EventsOf(tr, ev) == LET is(x) == x.ev = ev IN SelectSeq(tr, is)

\* the commands launched so far in this pass, as <<command, version>>
Launches(tr) ==
    LET ls == EventsOf(tr, "launch")
    IN [j \in 1..Len(ls) |-> <<ls[j].cmd, ls[j].v>>]

EnabledVersions == {v \in Versions : dirs[v].hs = <<"enabled">>}

\* the state each transition is documented to persist
C1_Persisted(cmd) ==
    CASE cmd = "install" -> "installed"
      [] cmd = "enable" -> "enabled"
      [] cmd = "disable" -> "disabled"
      [] cmd = "uninstall" -> "uninstalled"

\* C1: a transition (install, enable, disable, uninstall) on a version
\* persists its HandlerState exactly when its command returned exit code 0:
\* while the command is being launched nothing is persisted, a zero exit
\* makes the state of that version installed / enabled / disabled /
\* uninstalled, any other outcome leaves every HandlerState as it was; and
\* no HandlerState changes in any other step, except that initExtensionDir
\* initialises the state of a directory that has none.
C1_StateFollowsExitCode ==
    [][ /\ Running(Commands) => dirs' = dirs
        /\ pc = "wait" =>
             LET v == Inst(child.who).currVersion
                 x == trace'[Len(trace) + 1]
             IN /\ x.ev = "exit" /\ x.cmd = child.cmd /\ x.v = v
                /\ IF x.n = 0 /\ child.cmd # "update"
                   THEN /\ dirs'[v].hs = <<C1_Persisted(child.cmd)>>
                        /\ \A w \in Versions \ {v} : dirs'[w] = dirs[w]
                   ELSE dirs' = dirs
        /\ \A v \in Versions :
             dirs'[v].hs # dirs[v].hs =>
                \/ pc = "wait"
                \/ /\ Running({"initExtensionDir"})
                   /\ dirs[v].hs = <<>>
                   /\ dirs'[v].hs = <<"uninstalled">>
      ]_vars

\* C1 witness: in one pass install returned 0 and enable returned non-zero,
\* and the version is left installed
C1_Witness ==
    /\ pc = "report"
    /\ \E i, j \in 1..Len(trace) :
         /\ i < j
         /\ trace[i].ev = "exit" /\ trace[i].cmd = "install" /\ trace[i].n = 0
         /\ trace[j].ev = "exit" /\ trace[j].cmd = "enable" /\ trace[j].n = 1
         /\ dirs[trace[j].v].hs = <<"installed">>

\* C2: at most one version directory of the extension has HandlerState
\* enabled
C2_AtMostOneEnabled == Cardinality(EnabledVersions) <= 1

\* an upgrade whose every statement ran: its closing event is the last one
UpgradeCompleted ==
    /\ trace # <<>>
    /\ trace[Len(trace)].ev = "event"
    /\ trace[Len(trace)].cmd = "Upgrade"
    /\ trace[Len(trace)].n = 1

\* C3: when the new version's manifest has handlerManifest.updateMode equal
\* to updateWithInstall (ignoring case) and every command exits 0, an upgrade
\* launches exactly disable(old), update(new), uninstall(old), install(new),
\* enable(new), in that order, and leaves new enabled
C3_UpgradeWithInstall ==
    ( /\ UpgradeCompleted
      /\ dirs[new.currVersion].man # <<>>
      /\ dirs[new.currVersion].man[1].um \in
            {"updateWithInstall", "UpdateWithInstall", "updatewithinstall"} )
    => /\ Launches(trace) =
            << <<"disable", ext.currVersion>>, <<"update", new.currVersion>>,
               <<"uninstall", ext.currVersion>>,
               <<"install", new.currVersion>>, <<"enable", new.currVersion>> >>
       /\ dirs[new.currVersion].hs = <<"enabled">>

\* C4: the engine never waits on a child that does not exit by itself:
\* such a child is killed when the timeout's polls are used up, so every
\* launch returns or fails
C4_HungChildIsKilled == ~(pc = "wait" /\ ~child.exits)

C_ValidStatusFile(sf) ==
    /\ sf.exists
    /\ sf.json # <<>>
    /\ validateExtensionStatus(sf.json[1]) = ""

\* getAggStatus ran on a handler that reports heartbeat, with a readable
\* handler state and a valid status file
C_HeartbeatConsulted ==
    /\ aggIn.used
    /\ aggIn.hs # <<>>
    /\ aggIn.man # <<>>
    /\ aggIn.man[1].rh
    /\ C_ValidStatusFile(aggIn.statusFile)

\* C5: a heartbeat file last modified more than 600 seconds ago makes the
\* aggregate Unresponsive with code -1, whatever the file contains
C5_StaleHeartbeatUnresponsive ==
    ( /\ C_HeartbeatConsulted
      /\ aggIn.heartbeatFile.exists
      /\ aggIn.heartbeatFile.age > 600 )
    => /\ agg.err = ""
       /\ agg.val[1].status = "Unresponsive"
       /\ agg.val[1].top # <<>>
       /\ agg.val[1].top[1].code = -1

\* C6: a fresh (at most 600 seconds old), well-formed heartbeat with a valid
\* status gives the aggregate its status, code and Message
C6_FreshHeartbeatCopied ==
    ( /\ C_HeartbeatConsulted
      /\ aggIn.heartbeatFile.exists
      /\ aggIn.heartbeatFile.age <= 600
      /\ aggIn.heartbeatFile.json # <<>>
      /\ DOMAIN aggIn.heartbeatFile.json[1] = {"status", "code", "Message"}
      /\ aggIn.heartbeatFile.json[1].status \in
            {"Installing", "Ready", "NotReady", "Unresponsive"} )
    => /\ agg.err = ""
       /\ agg.val[1].status = aggIn.heartbeatFile.json[1].status
       /\ agg.val[1].top =
            <<[code |-> aggIn.heartbeatFile.json[1].code,
               Message |-> aggIn.heartbeatFile.json[1].Message]>>

C7_NewerInstalled == "A newer version has already been installed"

\* the setting s asks for enabled and resolves to a version lower than the
\* highest version directory on disk
C7_Downgrade(s) ==
    /\ s.state = "enabled"
    /\ getTargetVersion(s).err = ""
    /\ \E v \in Versions :
         /\ dirs[v].exists
         /\ \A w \in Versions : dirs[w].exists => ~StrLess(v, w)
         /\ StrLess(getTargetVersion(s).val[1], v)

\* C7: a pass that discovered an installed version and whose target version
\* is lower than that version fails with the downgrade error having launched no command, downloaded
\* nothing and written nothing: its only effect is the failure event and the
\* report, and the version directories are as they were
C7_DowngradeRejected ==
    [][ /\ (pc = "loop" /\ pc' \in {"run", "report"}
            /\ C7_Downgrade(setting')) =>
              /\ pc' = "report"
              /\ agg'.err = C7_NewerInstalled
              /\ agg'.val[1].status = "NotReady"
              /\ Len(trace') = 1
              /\ trace'[1].ev = "event"
              /\ trace'[1].n = 0
              /\ dirs' = dirs
        /\ (pc = "report" /\ agg.err = C7_NewerInstalled) =>
              /\ pc' = "loop"
              /\ dirs' = dirs
      ]_vars

\* C7 witness: a pass was rejected as a downgrade while the installed
\* version was enabled
C7_Witness ==
    /\ pc = "report"
    /\ agg.err = C7_NewerInstalled
    /\ ext.installed
    /\ StrLess(setting.version, ext.currVersion)
    /\ dirs[ext.currVersion].hs = <<"enabled">>

\* C8: download() fetches the URIs of one versionUris entry in list order,
\* fetches nothing after the first success, saves as the package the body
\* of the URI that succeeded and unpacks nothing else (a body that is no
\* archive is saved and not unpacked), and fails with the download error exactly when every URI of
\* the list was fetched and failed
C8_DownloadInOrder ==
    LET gets == EventsOf(trace, "get")
        packages == EventsOf(trace, "package")
        unpacks == EventsOf(trace, "unpack")
        n == Len(gets)
    IN gets # <<>> =>
         /\ \E e \in 1..Len(setting.versionUris) :
              LET uris == setting.versionUris[e].uris IN
              /\ n <= Len(uris)
              /\ \A j \in 1..n :
                   gets[j].u = uris[j].v /\ gets[j].n = uris[j].k
              /\ (agg.err = "Download extension failed") <=>
                   (n = Len(uris) /\ gets[n].cmd = "fail")
         /\ \A j \in 1..(n - 1) : gets[j].cmd = "fail"
         /\ IF gets[n].cmd = "ok"
            THEN /\ Len(packages) = 1
                 /\ packages[1].u = gets[n].u
                 /\ packages[1].n = gets[n].n
                 /\ \A j \in 1..Len(unpacks) :
                      unpacks[j].u = gets[n].u /\ unpacks[j].n = gets[n].n
                 /\ (pc # "crashed") => Len(unpacks) = 1
            ELSE packages = <<>> /\ unpacks = <<>>

\* C8 witness: the first URI failed, the second succeeded and was unpacked
C8_Witness ==
    LET gets == EventsOf(trace, "get")
    IN /\ Len(gets) = 2
       /\ gets[1].cmd = "fail"
       /\ gets[2].cmd = "ok"
       /\ EventsOf(trace, "unpack") # <<>>

\* C9: for a handler that does not report heartbeat and has a valid status
\* file, the aggregate's status is decided by the persisted handler state:
\* uninstalled NotReady, installed Installing, disabled Ready, enabled Ready
C9_StatusFromHandlerState ==
    ( /\ aggIn.used
      /\ aggIn.hs # <<>>
      /\ aggIn.man # <<>>
      /\ ~aggIn.man[1].rh
      /\ C_ValidStatusFile(aggIn.statusFile) )
    => /\ agg.err = ""
       /\ agg.val[1].top = <<>>
       /\ agg.val[1].status =
            (CASE aggIn.hs[1] = "uninstalled" -> "NotReady"
               [] aggIn.hs[1] = "installed" -> "Installing"
               [] aggIn.hs[1] = "disabled" -> "Ready"
               [] aggIn.hs[1] = "enabled" -> "Ready")

\* C9 witness: getAggStatus returned Ready for a disabled handler without
\* heartbeat
C9_Witness ==
    /\ aggIn.used
    /\ aggIn.hs = <<"disabled">>
    /\ aggIn.man # <<>>
    /\ ~aggIn.man[1].rh
    /\ agg.err = ""
    /\ agg.val[1].status = "Ready"

\* C10: every launch of a handler command in a version directory comes, in
\* the same pass, after a write of config/<seqNo>.settings in that
\* directory, for the seqNo of the setting being processed
C10_SettingsBeforeLaunch ==
    \A j \in 1..Len(trace) :
        trace[j].ev = "launch" =>
            /\ trace[j].n = setting.seqNo
            /\ \E i \in 1..(j - 1) :
                 /\ trace[i].ev = "settings"
                 /\ trace[i].v = trace[j].v
                 /\ trace[i].n = trace[j].n

\* C10 witness: an upgrade launched commands in the old and in the new
\* directory
C10_Witness ==
    \E i, j \in 1..Len(trace) :
        /\ trace[i].ev = "launch" /\ trace[j].ev = "launch"
        /\ trace[i].v # trace[j].v
        /\ setting.seqNo = MaxSeqNo

\* the statements of a pass that acted, in order: "download" for a package
\* unpacked, "initExtensionDir" for a directory initialised (a HandlerState
\* write that follows no exit of a child), and the name of each command
\* launched
StepsDone(tr) ==
    LET idx == {j \in 1..Len(tr) :
                   \/ tr[j].ev \in {"unpack", "launch"}
                   \/ /\ tr[j].ev = "state"
                      /\ (j = 1 \/ tr[j - 1].ev # "exit")}
        name(x) == CASE x.ev = "unpack" -> "download"
                     [] x.ev = "state" -> "initExtensionDir"
                     [] x.ev = "launch" -> x.cmd
        nth[k \in 0..Len(tr)] ==
            IF k = 0 THEN <<>>
            ELSE IF k \in idx THEN Append(nth[k - 1], name(tr[k]))
            ELSE nth[k - 1]
    IN nth[Len(tr)]

IsPrefix(a, b) == Len(a) <= Len(b) /\ a = SubSeq(b, 1, Len(a))

\* the pass at hand found no version directory of the name and its goal
\* state is enabled
C_FreshEnable ==
    /\ pc \in {"run", "wait", "report"}
    /\ setting.state = "enabled"
    /\ ~ext.installed

\* C12: with goal state enabled and no installed version discovered, the
\* pass runs download, initExtensionDir, install, enable in exactly that
\* order and nothing else; when all succeeded the HandlerState of the
\* instance's directory is enabled and, for a handler without heartbeat and
\* with a valid status file, the aggregate is Ready with the setting's seqNo
C12_FreshInstallOrder ==
    C_FreshEnable =>
      /\ IsPrefix(StepsDone(trace),
                  <<"download", "initExtensionDir", "install", "enable">>)
      /\ (pc = "run" /\ todo = <<>>) =>
            /\ Len(StepsDone(trace)) = 4
            /\ dirs[ext.currVersion].hs = <<"enabled">>
      /\ (pc = "report" /\ agg.err = "" /\ ~aggIn.man[1].rh
          /\ C_ValidStatusFile(aggIn.statusFile)) =>
            /\ Len(StepsDone(trace)) = 4
            /\ dirs[ext.currVersion].hs = <<"enabled">>
            /\ agg.val[1].status = "Ready"
            /\ agg.val[1].sequenceNumber = setting.seqNo

\* C12 witness: a fresh install of a handler without heartbeat was reported
\* Ready with the highest seqNo
C12_Witness ==
    /\ C_FreshEnable
    /\ pc = "report"
    /\ agg.err = ""
    /\ ~aggIn.man[1].rh
    /\ C_ValidStatusFile(aggIn.statusFile)
    /\ agg.val[1].status = "Ready"
    /\ setting.seqNo = MaxSeqNo
    /\ Launches(trace) = << <<"install", ext.currVersion>>,
                            <<"enable", ext.currVersion>> >>

\* the characters of a version before its first dot
C13_Major(v) ==
    LET dots == {k \in 1..Len(v) : v[k] = "."}
        first == IF dots = {} THEN Len(v) + 1
                 ELSE CHOOSE k \in dots : \A d \in dots : k <= d
    IN SubSeq(v, 1, first - 1)

\* upgradePolicy is present and spells auto in some case
C13_IsAuto(p) == p # <<>> /\ p[1] \in {"auto", "Auto", "AUTO"}

\* the listed versions of the goal version's major
C13_Candidates(s) ==
    {s.versionUris[i].version : i \in 1..Len(s.versionUris)} \cap
    {v \in TargetVersions : C13_Major(v) = C13_Major(s.version)}

\* C13: getTargetVersion returns setting.version when upgradePolicy is absent
\* or is not auto in any case; otherwise it returns the lexically greatest
\* listed version whose major component is that of setting.version, and
\* fails with the no-matching-version error when no listed version has it
C13_TargetVersion ==
    pc = "returned" =>
      IF ~C13_IsAuto(setting.upgradePolicy)
      THEN agg = Ok(setting.version)
      ELSE IF C13_Candidates(setting) = {}
      THEN agg = Raised("Can't find version")
      ELSE /\ agg.err = ""
           /\ agg.val[1] \in C13_Candidates(setting)
           /\ \A w \in C13_Candidates(setting) : ~StrLess(agg.val[1], w)

\* C13 witness: goal version 1.0 with policy "Auto" and a list holding 2.0,
\* 10.0 and 1.1 resolved to 1.1
C13_Witness ==
    /\ pc = "returned"
    /\ setting.version = V10
    /\ setting.upgradePolicy = <<"Auto">>
    /\ Len(setting.versionUris) = 3
    /\ {setting.versionUris[i].version : i \in 1..3} = {V20, V100, V11}
    /\ agg = Ok(V11)

\* process() is not running: it has not been called, it returned, or an
\* exception left it
C11_ProcessEnded == pc \in {"idle", "crashed"}

\* C11: a failure while handling one extension never keeps the others from
\* being processed: when process() has ended, no setting of the list is
\* left without its reportExtensionStatus
C11_EverySettingReported == C11_ProcessEnded => remaining = 0

\* C14: whenever the directory <libDir>/<name>-<version>/ exists, its
\* HandlerManifest.json and HandlerEnvironment.json exist at their canonical
\* paths; this holds after package extraction as after every other step
C14_DirectoryComplete ==
    \A v \in Versions :
        dirs[v].exists => dirs[v].man # <<>> /\ dirs[v].env

\* C15: the URIs download() fetches, and the package it unpacks into
\* <name>-<currVersion>, are those of the versionUris entry of the
\* instance's currVersion, also when auto-upgrade made currVersion differ
\* from setting.version; when versionUris has no entry of currVersion the
\* download fails with the no-package-URIs error having fetched nothing
C15_UrisOfCurrVersion ==
    /\ \A j \in 1..Len(trace) :
         trace[j].ev \in {"get", "unpack"} => trace[j].u = trace[j].v
    /\ \A j \in 1..Len(trace) :
         (trace[j].ev = "event" /\ trace[j].cmd = "Download"
          /\ \A e \in 1..Len(setting.versionUris) :
                setting.versionUris[e].version # trace[j].v)
         => /\ trace[j].n = 0
            /\ agg.err = "Can't get package uris"
            /\ EventsOf(trace, "get") = <<>>

\* C16: with goal state enabled and no installed version discovered, the
\* instance's currVersion is the resolved target version whenever the
\* resolution returned one, and every package unpacked, every file written
\* and every command launched by the pass is in <name>-<target>
C16_FreshInstallIntoTarget ==
    (C_FreshEnable /\ getTargetVersion(setting).err = "") =>
      LET target == getTargetVersion(setting).val[1] IN
      /\ ext.currVersion = target
      /\ \A j \in 1..Len(trace) :
           trace[j].ev \in {"unpack", "state", "settings", "launch"}
              => trace[j].v = target

\* the operation a pass started last, seen from the state in which its next
\* statement is about to fail: the command being waited for, the download
\* or command about to start, else the command launched last ("" when the
\* pass started none)
C17_LastStarted ==
    IF pc = "wait" THEN Operation(child.cmd)
    ELSE IF todo # <<>> /\ Head(todo).op = "download" THEN "Download"
    ELSE IF todo # <<>> /\ Head(todo).op \in Commands
        THEN Operation(Head(todo).op)
    ELSE IF Launches(trace) = <<>> THEN ""
    ELSE Operation(Launches(trace)[Len(Launches(trace))][1])

\* C17: a pass that fails with an ExtensionError reports a NotReady
\* aggregate whose status record has status error and code -1, emits exactly
\* one failure event, and names in both the operation the pass started last,
\* also when that operation was started on the new instance of an upgrade
C17_FailureNamesLastOperation ==
    [][ (pc \in {"run", "wait"} /\ pc' = "report" /\ agg'.err # "") =>
          LET failures == {j \in 1..Len(trace') :
                              trace'[j].ev = "event" /\ trace'[j].n = 0}
          IN /\ agg'.val[1].status = "NotReady"
             /\ agg'.val[1].settingsStatus.status = "error"
             /\ agg'.val[1].settingsStatus.code = -1
             /\ agg'.val[1].settingsStatus.operation = C17_LastStarted
             /\ failures = {Len(trace')}
             /\ trace'[Len(trace')].cmd = C17_LastStarted
      ]_vars

\* a step of the pass at hand, the first one included
C_InPass == pc' \in {"run", "wait", "report"}

\* what the first step of a pass must have read from the disk: the instance
\* is installed iff a version directory of the name exists, it is then the
\* highest one, and it is enabled iff that directory's HandlerState on entry
\* is enabled
C_EntryRead ==
    (pc = "loop" /\ C_InPass) =>
      LET onDisk == {v \in Versions : dirs[v].exists} IN
      /\ ext'.installed = (onDisk # {})
      /\ ext'.installed =>
           /\ ext'.currVersion \in onDisk
           /\ \A w \in onDisk : ~StrLess(ext'.currVersion, w)
           /\ ext'.enabled = (dirs[ext'.currVersion].hs = <<"enabled">>)

\* handle() and getAggStatus() returned: the pass succeeded
C_PassSucceeded == pc = "report" /\ agg.err = ""

\* the commands of a pass with goal state uninstall
C18_Commands ==
    IF ~ext.installed THEN <<>>
    ELSE IF ext.enabled
        THEN << <<"disable", ext.currVersion>>,
                <<"uninstall", ext.currVersion>> >>
    ELSE << <<"uninstall", ext.currVersion>> >>

\* the launch of uninstall comes after a zero exit of disable
C18_DisableSucceededFirst ==
    \A j \in 1..Len(trace) :
        (trace[j].ev = "launch" /\ trace[j].cmd = "uninstall" /\ ext.enabled)
        => \E i \in 1..(j - 1) :
              /\ trace[i].ev = "exit"
              /\ trace[i].cmd = "disable"
              /\ trace[i].n = 0

\* C18: with goal state uninstall, an instance whose HandlerState on entry
\* is enabled has disable launched and, only after disable exited 0,
\* uninstall; an installed instance that is not enabled has only uninstall
\* launched; without an installed instance no command is launched; when the
\* pass succeeded the HandlerState of an installed instance is uninstalled
C18_UninstallGoal ==
    [][ /\ C_EntryRead
        /\ (C_InPass /\ setting'.state = "uninstall") =>
             ( /\ IsPrefix(Launches(trace), C18_Commands)
               /\ C18_DisableSucceededFirst
               /\ (pc = "run" /\ todo = <<>>) =>
                     Launches(trace) = C18_Commands
               /\ (C_PassSucceeded /\ ext.installed) =>
                     dirs[ext.currVersion].hs = <<"uninstalled">> )'
      ]_vars

\* C18 witness: an enabled instance was disabled and uninstalled, and the
\* pass succeeded
C18_Witness ==
    /\ C_PassSucceeded
    /\ setting.state = "uninstall"
    /\ ext.enabled
    /\ Launches(trace) = C18_Commands
    /\ dirs[ext.currVersion].hs = <<"uninstalled">>

\* the instance of the pass was found installed and enabled on entry
C19_WasEnabled == ext.installed /\ ext.enabled

\* C19: with goal state disabled, a pass whose instance is not both
\* installed and enabled on entry launches no command, writes no settings
\* file and changes no HandlerState (nor anything else on disk); a pass whose
\* instance is installed and enabled launches exactly one command, disable,
\* and when that pass succeeded the HandlerState is disabled
C19_DisabledGoal ==
    [][ /\ C_EntryRead
        /\ (C_InPass /\ setting'.state = "disabled") =>
             /\ ~C19_WasEnabled' =>
                  /\ dirs' = dirs
                  /\ \A j \in 1..Len(trace') :
                       trace'[j].ev \notin {"launch", "settings", "state"}
             /\ C19_WasEnabled' =>
                  ( /\ IsPrefix(Launches(trace),
                                << <<"disable", ext.currVersion>> >>)
                    /\ \A j \in 1..Len(trace) :
                         trace[j].ev \in {"settings", "state"}
                            => trace[j].v = ext.currVersion
                    /\ C_PassSucceeded =>
                         /\ Len(Launches(trace)) = 1
                         /\ dirs[ext.currVersion].hs = <<"disabled">> )'
      ]_vars

\* C19 witness: a pass with goal state disabled found the instance
\* installed but not enabled and ended without a command
C19_Witness ==
    /\ pc = "report"
    /\ setting.state = "disabled"
    /\ ext.installed
    /\ ~ext.enabled
    /\ Launches(trace) = <<>>
    /\ dirs[ext.currVersion].hs = <<"installed">>

\* the pass of instance e for setting s has goal state enabled and found
\* installed the very version the setting resolves to
C20_SameVersion(s, e) ==
    /\ s.state = "enabled"
    /\ e.installed
    /\ getTargetVersion(s).err = ""
    /\ getTargetVersion(s).val[1] = e.currVersion

\* C20: with goal state enabled and the target version found installed, the
\* pass downloads nothing, initialises no directory and launches only
\* enable, in that version's directory; when it succeeded the HandlerState
\* is enabled, and a version that was enabled on entry stays enabled
\* throughout, so repeating the pass keeps it enabled
C20_EnableOnly ==
    [][ /\ C_EntryRead
        /\ (C_InPass /\ C20_SameVersion(setting', ext')) =>
             ( /\ EventsOf(trace, "get") = <<>>
               /\ IsPrefix(StepsDone(trace), <<"enable">>)
               /\ IsPrefix(Launches(trace),
                           << <<"enable", ext.currVersion>> >>)
               /\ C_PassSucceeded =>
                    /\ Launches(trace) = << <<"enable", ext.currVersion>> >>
                    /\ dirs[ext.currVersion].hs = <<"enabled">>
               /\ ext.enabled => dirs[ext.currVersion].hs = <<"enabled">> )'
      ]_vars

\* C20 witness: a version already enabled on entry was enabled again and the
\* pass succeeded
C20_Witness ==
    /\ C_PassSucceeded
    /\ C20_SameVersion(setting, ext)
    /\ ext.enabled
    /\ Launches(trace) = << <<"enable", ext.currVersion>> >>
    /\ dirs[ext.currVersion].hs = <<"enabled">>

\* C21: every aggregate handed to reportExtensionStatus, after a success as
\* after a failure, has a status in {Installing, Ready, NotReady,
\* Unresponsive}; and a fresh, well-formed heartbeat whose status is outside
\* that set makes the pass fail with the invalid-aggregate error and be
\* reported NotReady
C21_ValidAggregateReported ==
    pc = "report" =>
      /\ agg.val # <<>>
      /\ agg.val[1].status \in
            {"Installing", "Ready", "NotReady", "Unresponsive"}
      /\ ( /\ C_HeartbeatConsulted
           /\ aggIn.heartbeatFile.exists
           /\ aggIn.heartbeatFile.age <= 600
           /\ aggIn.heartbeatFile.json # <<>>
           /\ DOMAIN aggIn.heartbeatFile.json[1] = {"status", "code", "Message"}
           /\ aggIn.heartbeatFile.json[1].status \notin
                 {"Installing", "Ready", "NotReady", "Unresponsive"} )
         => /\ agg.err = "Invalid aggretated status"
            /\ agg.val[1].status = "NotReady"

\* C22: the enable command of a version is launched only when the install
\* command or the update command of that version exited 0 before, in this
\* or in an earlier pass
C22_EnableAfterInstall ==
    (pc = "wait" /\ child.cmd = "enable")
        => Inst(child.who).currVersion \in installedOk

\* the pass at hand ran an upgrade to its end and left the new version
\* enabled, the new version's handler not reporting heartbeat
C23_Upgraded ==
    /\ pc = "report"
    /\ new.currVersion # <<>>
    /\ \E j \in 1..Len(trace) :
         trace[j].ev = "event" /\ trace[j].cmd = "Upgrade" /\ trace[j].n = 1
    /\ dirs[new.currVersion].hs = <<"enabled">>
    /\ dirs[new.currVersion].man # <<>>
    /\ ~dirs[new.currVersion].man[1].rh

\* C23: the aggregate reported by a pass that completed an upgrade is
\* computed from the new version's directory: getAggStatus read the new
\* version's HandlerState and manifest, and with a valid status file the
\* aggregate is Ready
C23_AggregateOfNewVersion ==
    C23_Upgraded =>
      /\ aggIn.used
      /\ aggIn.hs = dirs[new.currVersion].hs
      /\ aggIn.man = dirs[new.currVersion].man
      /\ C_ValidStatusFile(aggIn.statusFile) =>
            /\ agg.err = ""
            /\ agg.val[1].status = "Ready"

====
